---- MODULE Spec2Model ----
(***************************************************************************)
(* NEXUS PRO (nexus_pro_mac.py): the dependency readiness bootstrap run by *)
(* main() and the streaming chat gateway served by the Flask listener.     *)
(*                                                                         *)
(* Spec        the life of one installation: process runs (restarts), the  *)
(*             bootstrap stages, the listener thread, the chat handler and *)
(*             the environment (backend, registry, port, executables).     *)
(* GatewaySpec one process that has finished its bootstrap: the chat       *)
(*             handler and the relay generator against a backend stream.   *)
(* FairGatewaySpec  GatewaySpec with the WSGI server driving the response  *)
(*             generator to its end.                                       *)
(***************************************************************************)
EXTENDS Integers, Sequences, FiniteSets, TLC

\* ---------------------------------------------------------------- bounds
MaxRuns == 2          \* process runs of one installation that are explored
MaxUnits == 3         \* lines the backend sends on one chat stream

\* ------------------------------------------------------ program constants
RetrySeconds == 30    \* ensure_ollama_running(retry_seconds=30)

VARIABLES
  \* the installation and its environment (outlive a process run)
  portOwner,      \* who listens on APP_PORT: "none", "other", "self"
  backend,        \* the listener on OLLAMA: "down", "healthy", "broken"
  registered,     \* MODEL_NAME is in the backend's registry
  ollamaBin,      \* shutil.which("ollama") finds an executable
  brewBin,        \* shutil.which("brew") finds an executable
  modelfile,      \* bundled_model_dir() / "Modelfile" exists
  setupFlag,      \* OLLAMA_SETUP_FLAG exists
  readyFlag,      \* MODEL_READY_FLAG exists
  settings,       \* the settings table: key -> value, NoRow when absent
  \* one process run
  pc,             \* position of main()
  srv,            \* the run_server thread: "none", "starting", "listening", "failed"
  pollI,          \* iterations done of the health poll loop
  exitMsg,        \* the diagnostic passed to fail_and_exit, "none" before
  ops,            \* external operations this run has invoked
  stages,         \* bootstrap stages that returned success in this run
  healthyOnEntry, \* the entry probe of ensure_ollama_running succeeded
  order,          \* what main() has begun in this run, in order
  \* across runs
  run,            \* number of process runs started
  brewCalls,      \* `brew install ollama` invocations in total
  createCalls,    \* `ollama create` invocations in total
  \* one chat request
  body,           \* request.json of the latest request
  resp,           \* the response returned by chat()
  probe,          \* result of the handler's health probe: "none", "ok", "fail"
  posts,          \* calls of the backend chat endpoint for this request
  temp,           \* options.temperature of the backend call, in tenths
  genPc,          \* the generator gen(): "none", "new", "streaming", "closed"
  pulled,         \* what the backend stream has delivered so far
  events,         \* the events gen() has emitted
  \* one /api/status request
  st              \* position and partial result of status()

envVars == <<portOwner, backend, registered, ollamaBin, brewBin, modelfile,
             setupFlag, readyFlag, settings>>
runVars == <<pc, srv, pollI, exitMsg, ops, stages, healthyOnEntry, order>>
cntVars == <<run, brewCalls, createCalls>>
reqVars == <<body, resp, probe, posts, temp, genPc, pulled, events, st>>
vars == <<envVars, runVars, cntVars, reqVars>>

NoRow == "<no row>"
NoResp == [code |-> 0, log |-> FALSE, stream |-> FALSE]
NoTemp == -1
NoBody == [keys |-> {}, message |-> <<>>, model |-> ""]
NoStatus == [pc |-> "idle", ollama |-> FALSE, models |-> {}]

\* no request has been received by the process
NoRequest ==
  /\ body = NoBody
  /\ resp = NoResp
  /\ probe = "none"
  /\ posts = 0
  /\ temp = NoTemp
  /\ genPc = "none"
  /\ pulled = <<>>
  /\ events = <<>>
  /\ st = NoStatus

\* the requests of a process end with it
DropRequest ==
  /\ body' = NoBody
  /\ resp' = NoResp
  /\ probe' = "none"
  /\ posts' = 0
  /\ temp' = NoTemp
  /\ genPc' = "none"
  /\ pulled' = <<>>
  /\ events' = <<>>
  /\ st' = NoStatus

\* ------------------------------------------------------------ Health Prober

\* _port_in_use: connect_ex succeeds when anything listens on the port
_port_in_use == portOwner # "none"

\* ollama_ok: True unless requests.get raises; the status code is not looked at
ollama_ok == backend # "down"

\* list_models: the names in /api/tags, [] on any exception or a body
\* without "models"
list_models == IF backend = "healthy" /\ registered THEN {"MODEL_NAME"} ELSE {}

\* ------------------------------------------------------------ main()

\* fail_and_exit: prints the message and the log path, sys.exit(1); the
\* daemon listener thread dies with the process
fail_and_exit(msg) ==
  /\ pc' = "exited"
  /\ exitMsg' = msg
  /\ srv' = "none"
  /\ portOwner' = IF portOwner = "self" THEN "none" ELSE portOwner

\* what fail_and_exit prints, lines 291-292: the message, then the log path
LogPath == "STARTUP_LOG_PATH"
ExitOutput(msg) == <<msg, LogPath>>

\* main going on whatever the stage returned
MainGate_Ignored(ok) == TRUE

\* main, lines 303-309: `ok, err = stage(); if not ok: fail_and_exit(err)`
MainGate(ok) == ok

\* a failed stage tried again instead of ending the run
Return_Retry(ok, err, stage, next) ==
  /\ stages' = IF ok THEN stages \cup {stage} ELSE stages
  /\ pc' = IF ok THEN next
           ELSE IF stage = "backend_running" THEN "eor_entry" ELSE "emr_entry"
  /\ UNCHANGED <<exitMsg, srv, portOwner>>

\* a stage function returns (ok, err) to main, which goes on or exits
Return(ok, err, stage, next) ==
  /\ stages' = IF ok THEN stages \cup {stage} ELSE stages
  /\ IF MainGate(ok)
       THEN /\ pc' = next
            /\ UNCHANGED <<exitMsg, srv, portOwner>>
       ELSE fail_and_exit(err)

\* a new process run: python nexus_pro_mac.py
Launch ==
  /\ pc \in {"off", "exited"}
  /\ run < MaxRuns
  /\ run' = run + 1
  /\ pc' = "port_check"
  /\ srv' = "none"
  /\ pollI' = 0
  /\ exitMsg' = "none"
  /\ ops' = {}
  /\ stages' = {}
  /\ healthyOnEntry' = FALSE
  /\ order' = <<>>
  /\ UNCHANGED <<envVars, brewCalls, createCalls, reqVars>>

\* the port check that never fails the run
PortGate_AlwaysGo(inUse) == "go"

\* main, lines 300-301
PortGate(inUse) == IF inUse THEN "fail" ELSE "go"

PortCheck ==
  /\ pc = "port_check"
  /\ IF PortGate(_port_in_use) = "fail"
       THEN fail_and_exit("port_in_use")
       ELSE /\ pc' = "eor_entry"
            /\ UNCHANGED <<srv, exitMsg, portOwner>>
  /\ stages' = IF _port_in_use THEN stages ELSE stages \cup {"port_free"}
  /\ UNCHANGED <<backend, registered, ollamaBin, brewBin, modelfile, setupFlag,
                 readyFlag, settings, pollI, ops, healthyOnEntry, cntVars, reqVars>>
  /\ order' = Append(order, "port")

\* ------------------------------------------------ ensure_ollama_running

\* the entry probe not short-circuiting the launch
FastPathGate_Never(healthy) == FALSE

\* lines 140-142: a healthy backend is reused
FastPathGate(healthy) == healthy

\* lines 140-145: the entry probe, then the search for the executable
EOR_Entry ==
  /\ pc = "eor_entry"
  /\ ops' = ops \cup {"probe"}
  /\ IF FastPathGate(ollama_ok)
       THEN Return(TRUE, "", "backend_running", "emr_entry")
       ELSE /\ pc' = IF ollamaBin THEN "eor_launch" ELSE "eoi"
            /\ UNCHANGED <<stages, exitMsg, srv, portOwner>>
  /\ healthyOnEntry' = ollama_ok
  /\ UNCHANGED <<backend, registered, ollamaBin, brewBin, modelfile, setupFlag,
                 readyFlag, settings, pollI, cntVars, reqVars>>
  /\ order' = Append(order, "backend")

\* what `brew install ollama` can do: exit 0 with the executable on the
\* path, exit 0 without it, a non-zero exit, or raise (timeout, OSError)
BrewOutcomes == {"installed", "rc0_absent", "nonzero", "raises"}

\* line 118 is reached only when _run_logged returned
WritesSetupFlag(outcome) == outcome # "raises"

\* line 115: nothing but the presence of brew decides on the install
MayBrew == brewBin

\* ensure_ollama_installed, lines 110-136, and its caller's lines 146-151
ensure_ollama_installed ==
  /\ pc = "eoi"
  /\ IF ollamaBin
       THEN /\ pc' = "eor_launch"
            /\ UNCHANGED <<ops, ollamaBin, setupFlag, brewCalls, exitMsg, srv,
                           portOwner, stages>>
       ELSE IF MayBrew
         THEN \E o \in BrewOutcomes :
                /\ brewCalls' = brewCalls + 1
                /\ setupFlag' = (setupFlag \/ WritesSetupFlag(o))
                /\ IF o = "installed"
                     THEN /\ ollamaBin' = TRUE
                          /\ ops' = ops \cup {"brew"}
                          /\ pc' = "eor_launch"
                          /\ UNCHANGED <<exitMsg, srv, portOwner, stages>>
                     ELSE /\ ops' = ops \cup {"brew", "browser"}
                          /\ Return(FALSE, "install_failed", "backend_running", "emr_entry")
                          /\ UNCHANGED ollamaBin
         ELSE /\ ops' = ops \cup {"browser"}
              /\ Return(FALSE, "install_failed", "backend_running", "emr_entry")
              /\ UNCHANGED <<ollamaBin, setupFlag, brewCalls>>
  /\ UNCHANGED <<backend, registered, brewBin, modelfile, readyFlag, settings,
                 pollI, healthyOnEntry, order, run, createCalls, reqVars>>

\* lines 153-159: subprocess.Popen([ollama_bin, "serve"]) starts or raises
EOR_Launch ==
  /\ pc = "eor_launch"
  /\ ops' = ops \cup {"serve"}
  /\ \E started \in BOOLEAN :
       IF started
         THEN /\ pc' = "eor_poll"
              /\ pollI' = 0
              /\ UNCHANGED <<exitMsg, srv, portOwner, stages>>
         ELSE /\ Return(FALSE, "launch_failed", "backend_running", "emr_entry")
              /\ UNCHANGED pollI
  /\ UNCHANGED <<backend, registered, ollamaBin, brewBin, modelfile, setupFlag,
                 readyFlag, settings, healthyOnEntry, cntVars, reqVars>>
  /\ order' = Append(order, "serve")

\* the poll loop running one iteration too many
MorePolls_OneMore(i) == i <= RetrySeconds

\* line 161: `for _ in range(retry_seconds)`
MorePolls(i) == i < RetrySeconds

\* lines 161-167: one iteration of the poll loop, or its exhaustion
EOR_Poll ==
  /\ pc = "eor_poll"
  /\ IF MorePolls(pollI)
       THEN /\ ops' = ops \cup {"probe"}
            /\ IF ollama_ok
                 THEN /\ Return(TRUE, "", "backend_running", "emr_entry")
                      /\ UNCHANGED pollI
                 ELSE /\ pollI' = pollI + 1
                      /\ UNCHANGED <<pc, stages, exitMsg, srv, portOwner>>
       ELSE /\ Return(FALSE, "backend_timeout", "backend_running", "emr_entry")
            /\ UNCHANGED <<ops, pollI>>
  /\ UNCHANGED <<backend, registered, ollamaBin, brewBin, modelfile, setupFlag,
                 readyFlag, settings, healthyOnEntry, order, cntVars, reqVars>>

\* --------------------------------------------------- ensure_model_ready

\* the ready marker not consulted before the build
MarkerBlocksBuild_Never(flag) == FALSE

\* line 181: an existing ready marker forbids the automatic build
MarkerBlocksBuild(flag) == flag

\* lines 171-182 decide among: the model is listed, the bundle is
\* incomplete, the build was attempted before, or the build is due
ModelPlan(listed, hasModelfile, flag) ==
  IF listed THEN "ready"
  ELSE IF ~hasModelfile THEN "no_modelfile"
  ELSE IF MarkerBlocksBuild(flag) THEN "already_attempted"
  ELSE "build"

\* lines 171-182
EMR_Entry ==
  /\ pc = "emr_entry"
  /\ ops' = ops \cup {"list"}
  /\ LET plan == ModelPlan("MODEL_NAME" \in list_models, modelfile, readyFlag) IN
       CASE plan = "ready" ->
              /\ readyFlag' = TRUE
              /\ Return(TRUE, "", "model_ready", "start_server")
         [] plan = "build" ->
              /\ pc' = "emr_create"
              /\ UNCHANGED <<readyFlag, stages, exitMsg, srv, portOwner>>
         [] OTHER ->
              /\ Return(FALSE, plan, "model_ready", "start_server")
              /\ UNCHANGED readyFlag
  /\ UNCHANGED <<backend, registered, ollamaBin, brewBin, modelfile, setupFlag,
                 settings, pollI, healthyOnEntry, cntVars, reqVars>>
  /\ order' = Append(order, "model")

\* what `ollama create` can do: exit 0 having registered the model, exit 0
\* without the model appearing, a non-zero exit, or raise (timeout, no
\* executable on the path)
CreateOutcomes ==
  IF ~ollamaBin THEN {"raises"}
  ELSE {"rc0_absent", "nonzero", "raises"}
         \cup (IF backend = "healthy" THEN {"rc0_registered"} ELSE {})

\* how the build ended for its caller: lines 186 and 188
BuildExit(o) ==
  CASE o = "raises" -> "raised"
    [] o = "nonzero" -> "exit_nonzero"
    [] OTHER -> "exit0"

\* lines 184-190
EMR_Create ==
  /\ pc = "emr_create"
  /\ ops' = ops \cup {"create"}
  /\ createCalls' = createCalls + 1
  /\ \E o \in CreateOutcomes :
       /\ registered' = (registered \/ o = "rc0_registered")
       /\ order' = order \o <<"build", BuildExit(o)>>
       /\ CASE o = "raises" ->
                 Return(FALSE, "create_error", "model_ready", "start_server")
            [] o = "nonzero" ->
                 Return(FALSE, "create_failed", "model_ready", "start_server")
            [] OTHER -> /\ pc' = "emr_verify"
                        /\ UNCHANGED <<exitMsg, srv, portOwner, stages>>
  /\ UNCHANGED <<backend, ollamaBin, brewBin, modelfile, setupFlag, readyFlag,
                 settings, pollI, healthyOnEntry, run, brewCalls, reqVars>>

\* a build that exited 0 taken for a success without looking at the registry
BuildVerdict_Trusting(listed) == TRUE

\* line 192: after a build that exited 0 the registry decides
BuildVerdict(listed) == listed

\* lines 192-197: the registry is asked again after a build that exited 0
EMR_Verify ==
  /\ pc = "emr_verify"
  /\ ops' = ops \cup {"list"}
  /\ IF BuildVerdict("MODEL_NAME" \in list_models)
       THEN /\ readyFlag' = TRUE
            /\ Return(TRUE, "", "model_ready", "start_server")
       ELSE /\ Return(FALSE, "not_registered", "model_ready", "start_server")
            /\ UNCHANGED readyFlag
  /\ UNCHANGED <<backend, registered, ollamaBin, brewBin, modelfile, setupFlag,
                 settings, pollI, healthyOnEntry, order, cntVars, reqVars>>

\* ------------------------------------------------- the gateway listener

Keys == {"system_prompt", "context_length", "temperature"}

\* the rows init_db inserts, lines 214-216
Defaults == [k \in Keys |->
               CASE k = "system_prompt" -> ""
                 [] k = "context_length" -> "20"
                 [] k = "temperature" -> "0.7"]

\* seeding that overwrites the rows (INSERT OR REPLACE)
init_db_Replace(tbl) == [k \in Keys |-> Defaults[k]]

\* init_db: INSERT OR IGNORE leaves an existing row as it is
init_db(tbl) == [k \in Keys |-> IF tbl[k] = NoRow THEN Defaults[k] ELSE tbl[k]]

\* dbg: the value of the row, None when there is none
dbg(k) == settings[k]

\* main, lines 311-312: the daemon thread is started
StartThread ==
  /\ pc = "start_server"
  /\ srv' = "starting"
  /\ pc' = "wait_server"
  /\ UNCHANGED <<envVars, pollI, exitMsg, ops, stages, healthyOnEntry, cntVars, reqVars>>
  /\ order' = Append(order, "listener")

\* run_server, lines 284-287: seeds the settings and binds APP_PORT; the
\* bind fails (the thread ends) when another listener holds the port
run_server ==
  /\ srv = "starting"
  /\ settings' = init_db(settings)
  /\ ops' = ops \cup {"listen"}
  /\ IF portOwner = "none"
       THEN /\ portOwner' = "self"
            /\ srv' = "listening"
       ELSE /\ srv' = "failed"
            /\ UNCHANGED portOwner
  /\ UNCHANGED <<backend, registered, ollamaBin, brewBin, modelfile, setupFlag,
                 readyFlag, pc, pollI, exitMsg, stages, healthyOnEntry, order, cntVars, reqVars>>

\* main, lines 315-319: _wait_server connects to whatever listens on the
\* port; with nothing listening for 30 seconds it gives up
WaitServer ==
  /\ pc = "wait_server"
  /\ IF portOwner # "none"
       THEN /\ pc' = "ready"
            /\ UNCHANGED <<exitMsg, srv, portOwner>>
       ELSE fail_and_exit("flask_timeout")
  /\ UNCHANGED <<backend, registered, ollamaBin, brewBin, modelfile, setupFlag,
                 readyFlag, settings, pollI, ops, stages, healthyOnEntry, order, cntVars, reqVars>>

\* main, lines 321-336: webview.start returns when the window is closed and
\* the process ends, its daemon thread with it
Quit ==
  /\ pc = "ready"
  /\ pc' = "off"
  /\ srv' = "none"
  /\ portOwner' = IF portOwner = "self" THEN "none" ELSE portOwner
  /\ DropRequest
  /\ UNCHANGED <<backend, registered, ollamaBin, brewBin, modelfile, setupFlag,
                 readyFlag, settings, pollI, exitMsg, ops, stages, healthyOnEntry, order,
                 cntVars>>

\* ------------------------------------------------------ the environment

\* the backend starts (also the one `ollama serve` spawned), stops, or is
\* replaced by something that answers /api/tags with an error status
BackendChange ==
  /\ \E b \in {"down", "healthy", "broken"} \ {backend} : backend' = b
  /\ UNCHANGED <<portOwner, registered, ollamaBin, brewBin, modelfile, setupFlag,
                 readyFlag, settings, runVars, cntVars, reqVars>>

\* the user registers or removes the model (`ollama pull`, `ollama rm`)
RegistryChange ==
  /\ registered' = ~registered
  /\ UNCHANGED <<portOwner, backend, ollamaBin, brewBin, modelfile, setupFlag,
                 readyFlag, settings, runVars, cntVars, reqVars>>

\* another local process starts or stops listening on APP_PORT
PortChange ==
  /\ portOwner # "self"
  /\ portOwner' = IF portOwner = "none" THEN "other" ELSE "none"
  /\ UNCHANGED <<backend, registered, ollamaBin, brewBin, modelfile, setupFlag,
                 readyFlag, settings, runVars, cntVars, reqVars>>

\* the user installs the backend from the download page
ManualInstall ==
  /\ ~ollamaBin
  /\ ollamaBin' = TRUE
  /\ UNCHANGED <<portOwner, backend, registered, brewBin, modelfile, setupFlag,
                 readyFlag, settings, runVars, cntVars, reqVars>>

\* values a settings row is edited to from outside the program
TemperatureValues == {"0.7", "1.5", "", "hot"}

\* the temperature row is edited or deleted
EditSetting ==
  /\ \E v \in (TemperatureValues \cup {NoRow}) \ {settings["temperature"]} :
       settings' = [settings EXCEPT !["temperature"] = v]
  /\ UNCHANGED <<portOwner, backend, registered, ollamaBin, brewBin, modelfile,
                 setupFlag, readyFlag, runVars, cntVars, reqVars>>

\* ------------------------------------------------------ Streaming Gateway

Whitespace == {" ", "\n"}

\* str.strip(): leading and trailing whitespace removed
RECURSIVE LStrip(_)
LStrip(s) == IF s # <<>> /\ Head(s) \in Whitespace THEN LStrip(Tail(s)) ELSE s

RECURSIVE RStrip(_)
RStrip(s) ==
  IF s # <<>> /\ s[Len(s)] \in Whitespace THEN RStrip(SubSeq(s, 1, Len(s) - 1)) ELSE s

\* the message taken as sent, without .strip()
strip_Identity(s) == s

strip(s) == RStrip(LStrip(s))

\* dict.get(key, default) on a JSON object
Get(d, k, default) == IF k \in d.keys THEN d[k] ELSE default

\* the JSON bodies sent to /api/chat; a null body reads as {}
Messages == {<<>>, <<" ">>, <<"h">>, <<" ", "h", "\n">>}
Models == {"", "m"}
Bodies ==
  {[keys |-> ks,
    message |-> IF "message" \in ks THEN m ELSE <<>>,
    model |-> IF "model" \in ks THEN md ELSE ""] :
      ks \in SUBSET {"message", "model"}, m \in Messages, md \in Models}

\* line 264: `if not (msg and model)`
Valid(msg, model) == msg # <<>> /\ model # ""

\* the handler without its health precondition
ChatGate_NoHealth(valid, healthy) == IF ~valid THEN 400 ELSE 200

\* lines 264-267: the status the handler answers with
ChatGate(valid, healthy) ==
  IF ~valid THEN 400 ELSE IF ~healthy THEN 503 ELSE 200

\* chat(), lines 260-281: validation, the health precondition, and the
\* streaming response whose generator has not run yet
chat ==
  /\ srv = "listening"
  /\ genPc \in {"none", "closed"}
  /\ \E d \in Bodies :
       LET msg == strip(Get(d, "message", <<>>))
           model == Get(d, "model", "")
           valid == Valid(msg, model)
           code == ChatGate(valid, ollama_ok)
       IN /\ body' = d
          /\ probe' = IF valid THEN (IF ollama_ok THEN "ok" ELSE "fail") ELSE "none"
          /\ ops' = IF valid THEN ops \cup {"probe"} ELSE ops
          /\ resp' = [code |-> code, log |-> code = 503, stream |-> code = 200]
          /\ genPc' = IF code = 200 THEN "new" ELSE "none"
  /\ posts' = 0
  /\ temp' = NoTemp
  /\ pulled' = <<>>
  /\ events' = <<>>
  /\ UNCHANGED <<envVars, pc, srv, pollI, exitMsg, stages, healthyOnEntry, order,
                 cntVars, st>>

\* the events of the outbound stream
TextEvent(c) == [kind |-> "text", text |-> c]
DoneEvent == [kind |-> "done", text |-> ""]
ErrorEvent == [kind |-> "error", text |-> ""]

\* float(x): the number in tenths, or a ValueError
float(x) ==
  CASE x = "0.7" -> [ok |-> TRUE, v |-> 7]
    [] x = "1.5" -> [ok |-> TRUE, v |-> 15]
    [] OTHER -> [ok |-> FALSE, v |-> 0]

\* line 272: float(dbg("temperature") or 0.7); None and "" are falsy
Temperature(stored) ==
  IF stored = NoRow \/ stored = "" THEN [ok |-> TRUE, v |-> 7] ELSE float(stored)

\* the units of the backend stream: JSON objects {message:{content}, done}
\* in which either key may be missing
Contents == {"Hel", "lo", ""}
Units ==
  {[keys |-> ks,
    content |-> IF "message" \in ks THEN c ELSE "",
    done |-> IF "done" \in ks THEN d ELSE FALSE] :
      ks \in {{"message", "done"}, {"done"}, {}}, c \in Contents, d \in BOOLEAN}

\* what resp.iter_lines() can deliver next: a unit, an empty keep-alive
\* line, a line that is not JSON, a network error, or the end of the stream
Lines ==
  {[kind |-> "unit", unit |-> u] : u \in Units}
    \cup {[kind |-> k, unit |-> [keys |-> {}, content |-> "", done |-> FALSE]] :
            k \in {"blank", "garbage", "drop", "eof"}}

\* line 239: d.get("message", {}).get("content", ""), d.get("done", False)
UnitText(u) == IF "message" \in u.keys THEN u.content ELSE ""
UnitDone(u) == IF "done" \in u.keys THEN u.done ELSE FALSE

\* a relay whose exceptions end the stream without an event
Relay_Silent(line) ==
  CASE line.kind = "unit" ->
         IF UnitDone(line.unit)
           THEN <<TextEvent(UnitText(line.unit)), DoneEvent>>
           ELSE <<TextEvent(UnitText(line.unit))>>
    [] line.kind = "eof" -> <<DoneEvent>>
    [] OTHER -> <<>>

\* lines 272-279: what gen() yields for one line pulled from stream_ollama
Relay(line) ==
  CASE line.kind = "unit" ->
         IF UnitDone(line.unit)
           THEN <<TextEvent(UnitText(line.unit)), DoneEvent>>
           ELSE <<TextEvent(UnitText(line.unit))>>
    [] line.kind = "blank" -> <<>>
    [] line.kind = "eof" -> <<DoneEvent>>
    [] OTHER -> <<ErrorEvent>>

\* the loop of gen() is over after this line
Ends(line) ==
  \/ line.kind \in {"garbage", "drop", "eof"}
  \/ line.kind = "unit" /\ UnitDone(line.unit)

\* gen() up to the first line: the temperature is read, stream_ollama posts
\* to /api/chat and raise_for_status checks the answer (lines 229-235, 272)
GenStart ==
  /\ genPc = "new"
  /\ LET t == Temperature(dbg("temperature")) IN
       IF ~t.ok
         THEN /\ events' = <<ErrorEvent>>
              /\ genPc' = "closed"
              /\ UNCHANGED <<posts, temp>>
         ELSE /\ posts' = posts + 1
              /\ temp' = t.v
              /\ \E accepted \in (IF backend = "healthy" THEN BOOLEAN ELSE {FALSE}) :
                   IF accepted
                     THEN /\ genPc' = "streaming"
                          /\ UNCHANGED events
                     ELSE /\ events' = <<ErrorEvent>>
                          /\ genPc' = "closed"
  /\ UNCHANGED <<envVars, runVars, cntVars, body, resp, probe, pulled, st>>

\* one iteration of `for chunk, done in stream_ollama(...)`, lines 272-279
GenPull ==
  /\ genPc = "streaming"
  /\ \E line \in Lines :
       /\ Len(pulled) < MaxUnits \/ line.kind \in {"drop", "eof"}
       /\ pulled' = Append(pulled, line)
       /\ events' = events \o Relay(line)
       /\ genPc' = IF Ends(line) THEN "closed" ELSE "streaming"
  /\ UNCHANGED <<envVars, runVars, cntVars, body, resp, probe, posts, temp, st>>

\* ----------------------------------------------------------- /api/status

\* line 256, first value of the reply: "ollama": ollama_ok()
status_Probe ==
  /\ srv = "listening"
  /\ st.pc \in {"idle", "sent"}
  /\ st' = [pc |-> "probed", ollama |-> ollama_ok, models |-> {}]
  /\ ops' = ops \cup {"probe"}
  /\ UNCHANGED <<envVars, pc, srv, pollI, exitMsg, stages, healthyOnEntry, order,
                 cntVars, body, resp, probe, posts, temp, genPc, pulled, events>>

\* line 256, the condition of the third value: `if ollama_ok() else []`
status_Reprobe ==
  /\ st.pc = "probed"
  /\ st' = [st EXCEPT !.pc = IF ollama_ok THEN "listing" ELSE "sent"]
  /\ ops' = ops \cup {"probe"}
  /\ UNCHANGED <<envVars, pc, srv, pollI, exitMsg, stages, healthyOnEntry, order,
                 cntVars, body, resp, probe, posts, temp, genPc, pulled, events>>

\* line 256, the third value: list_models(), then jsonify sends the reply
status_List ==
  /\ st.pc = "listing"
  /\ st' = [st EXCEPT !.pc = "sent", !.models = list_models]
  /\ ops' = ops \cup {"list"}
  /\ UNCHANGED <<envVars, pc, srv, pollI, exitMsg, stages, healthyOnEntry, order,
                 cntVars, body, resp, probe, posts, temp, genPc, pulled, events>>

\* ------------------------------------------------------- specifications

\* a fresh installation, before the first run
Init ==
  /\ portOwner = "none"
  /\ backend = "down"
  /\ registered = FALSE
  /\ ollamaBin \in BOOLEAN
  /\ brewBin \in BOOLEAN
  /\ modelfile \in BOOLEAN
  /\ setupFlag = FALSE
  /\ readyFlag = FALSE
  /\ settings = [k \in Keys |-> NoRow]
  /\ pc = "off"
  /\ srv = "none"
  /\ pollI = 0
  /\ exitMsg = "none"
  /\ ops = {}
  /\ stages = {}
  /\ healthyOnEntry = FALSE
  /\ order = <<>>
  /\ run = 0
  /\ brewCalls = 0
  /\ createCalls = 0
  /\ NoRequest

\* a process whose bootstrap found the backend healthy and the model
\* registered, with its listener up (a state Spec reaches)
GatewayInit ==
  /\ portOwner = "self"
  /\ backend = "healthy"
  /\ registered = TRUE
  /\ ollamaBin = TRUE
  /\ brewBin = TRUE
  /\ modelfile = TRUE
  /\ setupFlag = FALSE
  /\ readyFlag = TRUE
  /\ settings = Defaults
  /\ pc = "ready"
  /\ srv = "listening"
  /\ pollI = 0
  /\ exitMsg = "none"
  /\ ops = {"probe", "list", "listen"}
  /\ stages = {"port_free", "backend_running", "model_ready"}
  /\ healthyOnEntry = TRUE
  /\ order = <<"port", "backend", "model", "listener">>
  /\ run = 1
  /\ brewCalls = 0
  /\ createCalls = 0
  /\ NoRequest

Next ==
  \/ Launch
  \/ PortCheck
  \/ EOR_Entry
  \/ ensure_ollama_installed
  \/ EOR_Launch
  \/ EOR_Poll
  \/ EMR_Entry
  \/ EMR_Create
  \/ EMR_Verify
  \/ StartThread
  \/ run_server
  \/ WaitServer
  \/ Quit
  \/ chat
  \/ BackendChange
  \/ RegistryChange
  \/ PortChange
  \/ ManualInstall

Spec == Init /\ [][Next]_vars

GatewayNext ==
  \/ chat
  \/ GenStart
  \/ GenPull
  \/ BackendChange
  \/ EditSetting

GatewaySpec == GatewayInit /\ [][GatewayNext]_vars

\* the WSGI server iterates the response generator until it is exhausted
FairGatewaySpec == GatewaySpec /\ WF_vars(GenStart) /\ WF_vars(GenPull)

\* ensure_ollama_running called by main (line 303) on any machine: backend
\* down, healthy or broken, executable and brew present or not
LauncherInit ==
  /\ portOwner = "none"
  /\ backend \in {"down", "healthy", "broken"}
  /\ registered = FALSE
  /\ ollamaBin \in BOOLEAN
  /\ brewBin \in BOOLEAN
  /\ modelfile = TRUE
  /\ setupFlag \in BOOLEAN
  /\ readyFlag = FALSE
  /\ settings = [k \in Keys |-> NoRow]
  /\ pc = "eor_entry"
  /\ srv = "none"
  /\ pollI = 0
  /\ exitMsg = "none"
  /\ ops = {}
  /\ stages = {"port_free"}
  /\ healthyOnEntry = FALSE
  /\ order = <<"port">>
  /\ run = 1
  /\ brewCalls = 0
  /\ createCalls = 0
  /\ NoRequest

LauncherNext ==
  \/ EOR_Entry
  \/ ensure_ollama_installed
  \/ EOR_Launch
  \/ EOR_Poll
  \/ BackendChange
  \/ ManualInstall

LauncherSpec == LauncherInit /\ [][LauncherNext]_vars

\* every call the function makes returns: the probe has a 2 s timeout, the
\* install a 3600 s timeout, Popen does not wait, sleep(1) ends
FairLauncherSpec ==
  /\ LauncherSpec
  /\ WF_vars(EOR_Entry)
  /\ WF_vars(ensure_ollama_installed)
  /\ WF_vars(EOR_Launch)
  /\ WF_vars(EOR_Poll)

\* the gateway answering /api/status and /api/chat while the backend and
\* its registry change
StatusNext ==
  \/ status_Probe
  \/ status_Reprobe
  \/ status_List
  \/ chat
  \/ BackendChange
  \/ RegistryChange

StatusSpec == GatewayInit /\ [][StatusNext]_vars

\* the settings tables init_db can find: any row absent, seeded or edited
Tables ==
  {t \in [Keys -> TemperatureValues \cup {NoRow, "20", "custom"}] :
     /\ t["system_prompt"] \in {NoRow, "", "custom"}
     /\ t["context_length"] \in {NoRow, "20", "custom"}
     /\ t["temperature"] \in TemperatureValues \cup {NoRow}}

\* a process whose bootstrap succeeded and whose listener thread has just
\* been started, over any settings table
StoreInit ==
  /\ portOwner = "none"
  /\ backend = "healthy"
  /\ registered = TRUE
  /\ ollamaBin = TRUE
  /\ brewBin = TRUE
  /\ modelfile = TRUE
  /\ setupFlag = FALSE
  /\ readyFlag = TRUE
  /\ settings \in Tables
  /\ pc = "wait_server"
  /\ srv = "starting"
  /\ pollI = 0
  /\ exitMsg = "none"
  /\ ops = {"probe", "list"}
  /\ stages = {"port_free", "backend_running", "model_ready"}
  /\ healthyOnEntry = TRUE
  /\ order = <<"port", "backend", "model", "listener">>
  /\ run = 1
  /\ brewCalls = 0
  /\ createCalls = 0
  /\ NoRequest

StoreNext ==
  \/ run_server
  \/ WaitServer
  \/ EditSetting

StoreSpec == StoreInit /\ [][StoreNext]_vars

\* ------------------------------------------------------------ properties

AllStages == {"port_free", "backend_running", "model_ready"}

\* C1: a run whose port check found APP_PORT in use has exited through
\* fail_and_exit with the port diagnostic, and has invoked no health probe,
\* no install, no backend launch, no registry query, no model build and no
\* listener.
C1_PortConflictFirst ==
  (run > 0 /\ pc # "port_check" /\ "port_free" \notin stages)
    => (pc = "exited" /\ exitMsg = "port_in_use" /\ ops = {} /\ srv = "none")

C1_Witness == pc = "exited" /\ exitMsg = "port_in_use" /\ portOwner = "other"

\* C2: the listener is started, and a chat request answered, only in a run
\* in which the port check, ensure_ollama_running and ensure_model_ready
\* have all returned success.
C2_ListenAfterReady ==
  (srv # "none" \/ "listen" \in ops \/ resp # NoResp) => stages = AllStages

C2_Witness == srv = "listening" /\ resp.code = 200 /\ run = 2

\* C3: over all runs of one installation `ollama create` is invoked at most
\* once, also when the first invocation failed.
C3_CreateAtMostOnce == createCalls <= 1

\* C4: when ensure_model_ready starts with the ready marker present and the
\* model not listed by the registry, it returns a failure to main (the run
\* exits) without invoking the build; and the marker is never removed.
C4_MarkerBlocksBuild ==
  [][/\ readyFlag => readyFlag'
     /\ (pc = "emr_entry" /\ pc' # "emr_entry" /\ readyFlag
           /\ "MODEL_NAME" \notin list_models)
          => (pc' = "exited" /\ createCalls' = createCalls
                /\ "create" \notin ops')]_vars

C4_Witness == pc = "exited" /\ exitMsg = "already_attempted" /\ readyFlag

\* C5: the install marker exists once `brew install ollama` has been
\* attempted, whatever its outcome, and over all runs the install is
\* invoked at most once.
C5_BrewAtMostOnce == (brewCalls > 0 => setupFlag) /\ brewCalls <= 1

\* C6: when the entry probe of ensure_ollama_running succeeds, the function
\* has returned success and the run invokes no install, opens no download
\* page and launches no backend.
C6_FastPath ==
  (healthyOnEntry /\ pc # "eor_entry")
    => ("backend_running" \in stages /\ ops \cap {"brew", "browser", "serve"} = {})

C6_Witness == healthyOnEntry /\ pc = "ready" /\ srv = "listening"

\* the message of a body is missing, empty or whitespace only
BlankMessage(d) ==
  "message" \notin d.keys \/ \A i \in DOMAIN d.message : d.message[i] \in Whitespace

\* the model of a body is missing or empty
NoModel(d) == "model" \notin d.keys \/ d.model = ""

C8_Unhealthy ==
  probe = "fail"
    => (resp = [code |-> 503, log |-> TRUE, stream |-> FALSE] /\ posts = 0
          /\ genPc = "none" /\ events = <<>>)

C8_Witness == probe = "fail" /\ resp.code = 503 /\ backend = "down"

\* the backend sent text fragments and then reported completion: units with
\* text and done=false, then one unit with done=true and no text
IsFragment(line) ==
  line.kind = "unit" /\ line.unit.keys = {"message", "done"}
    /\ ~line.unit.done /\ line.unit.content # ""

IsCompletion(line) ==
  line.kind = "unit" /\ line.unit.keys = {"message", "done"}
    /\ line.unit.done /\ line.unit.content = ""

FragmentsThenDone(ls) ==
  /\ ls # <<>>
  /\ \A i \in 1..(Len(ls) - 1) : IsFragment(ls[i])
  /\ IsCompletion(ls[Len(ls)])

\* C9: for fragments f1..fn followed by completion the outbound stream is
\* exactly text f1, ..., text fn, done: no further and no empty text event.
C9_ExactRelay ==
  (genPc = "closed" /\ FragmentsThenDone(pulled))
    => events = [i \in 1..Len(pulled) |->
                   IF i < Len(pulled) THEN TextEvent(pulled[i].unit.content)
                                      ELSE DoneEvent]

\* the text events for the units among the lines ls
RECURSIVE Texts(_)
Texts(ls) ==
  IF ls = <<>> THEN <<>>
  ELSE (IF Head(ls).kind = "unit" THEN <<TextEvent(UnitText(Head(ls).unit))>> ELSE <<>>)
         \o Texts(Tail(ls))

Terminal(e) == e.kind \in {"done", "error"}

\* the relay raised: the temperature did not parse, the backend call
\* failed, or the last line was not JSON or a network error
Raised ==
  /\ genPc = "closed"
  /\ \/ pulled = <<>>
     \/ pulled # <<>> /\ pulled[Len(pulled)].kind \in {"garbage", "drop"}

TerminalShape ==
  /\ \A i \in 1..(Len(events) - 1) : ~Terminal(events[i])
  /\ genPc \in {"new", "streaming"} => \A i \in 1..Len(events) : ~Terminal(events[i])
  /\ genPc = "closed" => (events # <<>> /\ Terminal(events[Len(events)]))
  /\ Raised => events = Texts(pulled) \o <<ErrorEvent>>

\* C10: a stream that passed validation and the health check is closed in
\* the end; a closed stream has exactly one terminal event, done or error,
\* as its last event; and when the backend call or the relay raised, the
\* text events relayed so far are followed by exactly one error event.
C10_OneTerminal ==
  /\ []TerminalShape
  /\ (genPc \in {"new", "streaming"}) ~> (genPc = "closed")

C10_Witness ==
  /\ genPc = "closed"
  /\ Len(pulled) = 3
  /\ pulled[3].kind = "drop"
  /\ events = <<TextEvent("Hel"), TextEvent("lo"), ErrorEvent>>

\* the bootstrap stages among the entries of a run's log
StageOrder == <<"port", "backend", "model", "listener">>

IsStage(x) == x \in {"port", "backend", "model", "listener"}

IsPrefix(a, b) == Len(a) <= Len(b) /\ \A i \in 1..Len(a) : a[i] = b[i]

Began(x) == \E i \in 1..Len(order) : order[i] = x

C11_Stages ==
  /\ IsPrefix(SelectSeq(order, IsStage), StageOrder)
  /\ Began("backend") => "port_free" \in stages
  /\ Began("model") => {"port_free", "backend_running"} \subseteq stages
  /\ Began("listener") => stages = AllStages
  /\ (srv # "none" \/ "listen" \in ops) => Began("listener")
  /\ pc = "exited" =>
       /\ exitMsg # "none"
       /\ \E i \in 1..Len(ExitOutput(exitMsg)) : ExitOutput(exitMsg)[i] = LogPath
       /\ srv = "none"
       /\ portOwner # "self"

C11_Steps ==
  /\ pc = "exited" =>
       \/ pc' = "port_check" /\ run' = run + 1
       \/ pc' = "exited" /\ order' = order /\ ops' = ops /\ srv' = srv
  /\ (pc = "wait_server" /\ pc' # pc) =>
       IF portOwner # "none" THEN pc' = "ready"
       ELSE pc' = "exited" /\ exitMsg' = "flask_timeout"
  /\ (pc' = "exited" /\ pc # "exited") => stages' # AllStages \/ pc = "wait_server"

\* C11: in one run the stages port check, backend, model, listener begin in
\* that order, each at most once; a later stage begins only after the
\* earlier ones returned success; a failed stage, or a listener that cannot
\* be reached, ends the run through fail_and_exit, whose output has the log
\* path, and an exited run starts nothing more and leaves no listener.
C11_Sequential == []C11_Stages /\ [][C11_Steps]_vars

C11_Witness ==
  /\ pc = "exited"
  /\ exitMsg = "not_registered"
  /\ order = <<"port", "backend", "serve", "model", "build", "exit0">>

\* C12: whatever another local process does with APP_PORT, the program
\* reports startup complete and hands over to the window only while the
\* port is served by its own listener, never by a listener of another
\* process.
C12_OwnListener == pc = "ready" => (portOwner # "other" /\ srv # "failed")

\* the defaults as the claim states them
SeedValue(k) ==
  CASE k = "temperature" -> "0.7"
    [] k = "context_length" -> "20"
    [] k = "system_prompt" -> ""

\* C13: init_db on an empty store makes Get return "0.7" for temperature,
\* "20" for context_length and "" for system_prompt; on any store it seeds
\* the absent keys only and leaves every row that has a value as it is.
C13_Seeding ==
  [][(srv = "starting" /\ srv' # "starting" /\ pc' = pc) =>
       /\ \A k \in Keys :
            dbg(k)' = IF settings[k] = NoRow THEN SeedValue(k) ELSE settings[k]
       /\ (\A k \in Keys : settings[k] = NoRow) =>
            /\ dbg("temperature")' = "0.7"
            /\ dbg("context_length")' = "20"
            /\ dbg("system_prompt")' = ""]_vars

C13_Witness ==
  /\ srv = "listening"
  /\ pc = "wait_server"
  /\ dbg("temperature") = "hot"
  /\ dbg("context_length") = "20"
  /\ dbg("system_prompt") = "custom"

\* ensure_model_ready has returned after a build, with success or not
BuildReturned == Began("build") /\ pc \notin {"emr_create", "emr_verify"}

BuildSucceeded == "model_ready" \in stages

\* C14 as stated: after a build, whatever its exit code, the result is a
\* success exactly when the registry then lists the model, and the marker is
\* written exactly in the success case.
C14_SuccessIffListed ==
  [][(pc \in {"emr_create", "emr_verify"} /\ pc' \notin {"emr_create", "emr_verify"})
       => /\ ("model_ready" \in stages') <=> ("MODEL_NAME" \in list_models')
          /\ readyFlag' <=> ("model_ready" \in stages')]_vars

C14_AfterBuild ==
  BuildReturned =>
    /\ BuildSucceeded => (Began("exit0") /\ readyFlag)
    /\ ~BuildSucceeded => (~readyFlag /\ pc = "exited")
    /\ (Began("exit_nonzero") \/ Began("raised")) =>
         (~BuildSucceeded /\ exitMsg \in {"create_failed", "create_error"})

C14_Requery ==
  (pc = "emr_verify" /\ pc' # pc) =>
    /\ ("model_ready" \in stages') <=> ("MODEL_NAME" \in list_models)
    /\ readyFlag' <=> ("MODEL_NAME" \in list_models)

\* C14 amended: a build that exited 0 is followed by a second registry query
\* and the result is a success exactly when that query lists the model; a
\* build that exited non-zero or raised gives a failure; the marker is
\* written in the success case and not written when the result is a failure.
C14_BuildResult == []C14_AfterBuild /\ [][C14_Requery]_vars

C14_Witness ==
  /\ Began("exit0")
  /\ BuildSucceeded
  /\ readyFlag
  /\ pc = "ready"
  /\ createCalls = 1

InLauncher == pc \in {"eor_entry", "eoi", "eor_launch", "eor_poll"}

\* how many times `ollama serve` was spawned in this run
Serves == Cardinality({i \in DOMAIN order : order[i] = "serve"})

C15_Bounded ==
  /\ pollI \in 0..RetrySeconds
  /\ Serves <= 1
  /\ pc = "eor_poll" => Serves = 1
  /\ exitMsg = "backend_timeout" => (pollI = RetrySeconds /\ Serves = 1)
  /\ exitMsg = "launch_failed" => (pollI = 0 /\ Serves = 1)
  /\ exitMsg # "none" => (pc = "exited" /\ ExitOutput(exitMsg)[2] = LogPath)

C15_Steps ==
  /\ (pc = "eor_launch" /\ pc' # pc) =>
       \/ pc' = "eor_poll" /\ pollI' = 0
       \/ pc' = "exited" /\ exitMsg' = "launch_failed"
  /\ (pc = "eor_poll" /\ <<pc, pollI>>' # <<pc, pollI>>) =>
       IF pollI < RetrySeconds
         THEN IF ollama_ok
                THEN pc' = "emr_entry" /\ "backend_running" \in stages'
                ELSE pc' = pc /\ pollI' = pollI + 1
         ELSE pc' = "exited" /\ exitMsg' = "backend_timeout"

C15_Terminates == InLauncher ~> (pc \in {"emr_entry", "exited"})

\* C15: ensure_ollama_running always returns a result: with an executable
\* it spawns the backend exactly once, then probes at most RetrySeconds
\* times, returning success at the first healthy probe and a timeout failure
\* after RetrySeconds unhealthy ones; a launch that raises gives a failure
\* without any probe of the loop.
C15_Launcher == []C15_Bounded /\ [][C15_Steps]_vars /\ C15_Terminates

C15_Witness ==
  /\ pc = "exited"
  /\ exitMsg = "backend_timeout"
  /\ pollI = RetrySeconds
  /\ Serves = 1

\* C16: a backend that answers the status endpoint with an error status is
\* not healthy for ollama_ok, so the launcher's entry probe does not take
\* the fast path on it: the entry step neither records the backend as
\* running nor goes on to the model stage.
C16_ErrorStatusUnhealthy ==
  [][(pc = "eor_entry" /\ pc' # pc /\ backend = "broken")
       => /\ ~healthyOnEntry'
          /\ "backend_running" \notin stages'
          /\ pc' # "emr_entry"]_vars

\* C17: every unit pulled from the backend stream, the completion unit
\* included, adds at most one event to the outbound stream.
C17_OneEventPerFragment ==
  [][(Len(pulled') = Len(pulled) + 1 /\ pulled'[Len(pulled')].kind = "unit")
       => Len(events') <= Len(events) + 1]_vars

\* C18: with a stored temperature that is absent, empty or not a number the
\* generator still posts to the backend, with the default temperature, and
\* emits no error event for it.
C18_SafeDefault ==
  [][(genPc = "new" /\ genPc' # "new" /\ ~float(dbg("temperature")).ok)
       => /\ posts' = posts + 1
          /\ temp' = Temperature(NoRow).v]_vars

\* C19: a done event is in the outbound stream only if a unit reporting
\* completion was pulled, and that unit is the last line pulled.
C19_DoneOnlyAfterCompletion ==
  (\E i \in DOMAIN events : events[i] = DoneEvent)
    => /\ pulled # <<>>
       /\ pulled[Len(pulled)].kind = "unit"
       /\ UnitDone(pulled[Len(pulled)].unit)

\* C20: a /api/status reply that reports ollama = false has an empty models
\* list, whatever the backend did between the handler's probes.
C20_StatusConsistent ==
  (st.pc = "sent" /\ ~st.ollama) => st.models = {}

====
